---- MODULE Spec2Model ----
(***************************************************************************)
(* Akonadi2::Storage (common/storage_unqlite.cpp): the transaction state   *)
(* machine, the point operations and the cursor-driven scan of one Store   *)
(* above the unqlite engine.  Every Storage method is one atomic action    *)
(* (the layer is single-threaded and synchronous).  The engine is the      *)
(* external collaborator: what it stores, and which of its calls fail, is  *)
(* modelled by the engine_* operators and by the rc inputs of the actions. *)
(***************************************************************************)
EXTENDS Integers, Sequences, FiniteSets, TLC

\* ------------------------------------------------------------------ bounds
\* longest value handed to write()
MaxLen == 2

\* ------------------------------------------------------- program constants
UNQLITE_OK == 0
\* a non-OK engine status (UNQLITE_IOERR)
UNQLITE_IOERR == -2
\* error code of the layer-detected "Not open" condition
NotOpenCode == -1

\* ------------------------------------------------------------------ inputs
\* the keys callers use: one of length 1, one of length 3
Keys == { <<1>>, <<2, 2, 2>> }
\* the engine's key order
KeyOrder == << <<1>>, <<2, 2, 2>> >>
\* the values callers write: the shortest one and one of MaxLen bytes
Values == { [i \in 1..n |-> 1] : n \in {1, MaxLen} }
\* bytes found behind the terminator of a std::string buffer
GarbageBytes == {0, 1}
\* status codes an engine call can return
EngineRc == {UNQLITE_OK, UNQLITE_IOERR}

\* no value under a key (no byte is negative); no key argument
NoValue == <<-1>>
NoKey == <<>>
\* return values as observed: of a bool method, of a void method
Ret(b) == IF b THEN "true" ELSE "false"
Void == "void"
EmptyStore == [k \in Keys |-> NoValue]

VARIABLES
    alive,          \* the Storage object exists (constructed, not destroyed)
    db,             \* d->db is non-null
    inTransaction,  \* d->inTransaction
    data,           \* engine: the key/value pairs the handle currently sees
    snapshot,       \* engine: the pairs as of the begin of its transaction
    engineTxn,      \* engine: a transaction was begun and has been neither
                    \*         successfully committed nor rolled back
    atStart,        \* history: the pairs when the Store last became Active
    last            \* observation of the most recent call

vars == <<alive, db, inTransaction, data, snapshot, engineTxn, atStart, last>>

\* ------------------------------------------------------------ observation
\* what a call did: its arguments, its return value, the engine calls it
\* issued (in order), the diagnostics it printed, the handler invocations,
\* the transaction flag it found, whether it repeats a startTransaction and
\* what that one returned, whether the engine had a transaction open, the
\* keys present that were absent when the Store became Active (fresh), those
\* of them the abortTransaction right before this call found (undone), and
\* (set by the caller) the engine's status.
Call(op, key, value, ret, engine, reports, errs, results, wasIn) ==
    [ op |-> op, key |-> key, value |-> value, ret |-> ret,
      engine |-> engine, reports |-> reports, errs |-> errs,
      results |-> results, wasIn |-> wasIn,
      again |-> (op = "startTransaction" /\ last.op = op),
      prevRet |-> IF op = "startTransaction" /\ last.op = op THEN last.ret ELSE Void,
      rc |-> UNQLITE_OK,
      hadEngineTxn |-> engineTxn,
      undone |-> IF last.op = "abortTransaction" /\ last.wasIn THEN last.fresh ELSE {},
      fresh |-> { k \in Keys : inTransaction /\ atStart[k] = NoValue
                                 /\ data[k] # NoValue },
      removed |-> IF op \in {"read", "read_raw"} /\ db
                       /\ last.op = "remove" /\ last.key = key
                  THEN (IF last.rc = UNQLITE_OK THEN "deleted" ELSE "refused")
                  ELSE "no",
      stopAt |-> 0, keyCaps |-> <<>>, dataCaps |-> <<>>, freed |-> <<>>,
      fault |-> "none", faultAt |-> 0 ]

\* Error(name, code, message) handed to an error handler
Error(code, message) == [ code |-> code, message |-> message ]

\* ----------------------------------------------------------------- engine
\* unqlite_begin: on success the rollback point is the current view
engine_begin(rc) ==
    IF rc = UNQLITE_OK
    THEN /\ snapshot' = data
         /\ engineTxn' = TRUE
    ELSE UNCHANGED <<snapshot, engineTxn>>

\* unqlite_commit: on success the transaction's writes are durable and the
\* transaction is over; on failure the transaction stays open
engine_commit(rc) ==
    IF rc = UNQLITE_OK
    THEN /\ snapshot' = data
         /\ engineTxn' = FALSE
    ELSE UNCHANGED <<snapshot, engineTxn>>

\* unqlite_rollback: the view returns to the rollback point
engine_rollback ==
    /\ data' = IF engineTxn THEN snapshot ELSE data
    /\ snapshot' = IF engineTxn THEN snapshot ELSE data
    /\ engineTxn' = FALSE

\* unqlite_kv_store / unqlite_kv_delete: the view after the call; outside a
\* transaction the rollback point follows the view
engine_kv_store(rc, k, v) == IF rc = UNQLITE_OK THEN [data EXCEPT ![k] = v] ELSE data
engine_kv_delete(rc, k) == IF rc = UNQLITE_OK THEN [data EXCEPT ![k] = NoValue] ELSE data
engine_point(d) == IF engineTxn THEN snapshot ELSE d

\* the history variable: outside a transaction it follows the view
HistAtStart(inT, d) == IF inT THEN atStart ELSE d

\* ------------------------------------------- Storage::isInTransaction/exists
isInTransaction == inTransaction
exists == db

\* --------------------------------------------------- Storage::Private::Private
\* the fields after construction, rc being unqlite_open's status
Private_StartsActive(rc) ==
    [ db |-> (rc = UNQLITE_OK), inTransaction |-> TRUE,
      reports |-> IF rc = UNQLITE_OK THEN <<>> ELSE <<"unqlite_open">> ]

Private(rc) ==
    [ db |-> (rc = UNQLITE_OK), inTransaction |-> FALSE,
      reports |-> IF rc = UNQLITE_OK THEN <<>> ELSE <<"unqlite_open">> ]

\* the observation of a constructor call
Constructed(rc) ==
    [ op |-> "Storage", key |-> NoKey, value |-> NoValue, ret |-> Void,
      engine |-> <<"unqlite_open">>, reports |-> Private(rc).reports,
      errs |-> <<>>, results |-> <<>>, wasIn |-> FALSE, again |-> FALSE,
      prevRet |-> Void, rc |-> rc, hadEngineTxn |-> FALSE, undone |-> {},
      fresh |-> {}, removed |-> "no", stopAt |-> 0, keyCaps |-> <<>>,
      dataCaps |-> <<>>, freed |-> <<>>, fault |-> "none", faultAt |-> 0 ]

\* a Store constructed over a new file
Init ==
    \E rc \in EngineRc :
        /\ alive = TRUE
        /\ db = Private(rc).db
        /\ inTransaction = Private(rc).inTransaction
        /\ data = EmptyStore
        /\ snapshot = EmptyStore
        /\ engineTxn = FALSE
        /\ atStart = EmptyStore
        /\ last = Constructed(rc)

\* ------------------------------------------------------------ Storage::Storage
\* a Store constructed over the file an earlier Store left behind
Storage(rc) ==
    /\ ~alive
    /\ alive' = TRUE
    /\ db' = Private(rc).db
    /\ inTransaction' = Private(rc).inTransaction
    /\ UNCHANGED <<data, snapshot, engineTxn, atStart>>
    /\ last' = Constructed(rc)

\* ------------------------------------------------------------ the guards
\* if (!d->db): the operation finds no handle
NotOpen_Unchecked == FALSE
NotOpen == ~db

\* startTransaction's if (d->inTransaction): nothing to begin
AlreadyActive_Unchecked == FALSE
AlreadyActive_Inverted == ~inTransaction
AlreadyActive == inTransaction

\* commitTransaction's if (!d->inTransaction): nothing to commit
NothingToCommit_Unchecked == FALSE
NothingToCommit == ~inTransaction

\* abortTransaction's if (!d->db || !d->inTransaction): nothing to roll back
NothingToAbort_Unchecked == FALSE
NothingToAbort == ~db \/ ~inTransaction

\* d->inTransaction = unqlite_begin(d->db) == UNQLITE_OK
AfterBegin_Always(rc) == TRUE
AfterBegin(rc) == rc = UNQLITE_OK

\* d->inTransaction = false, whatever unqlite_commit returned
AfterCommit_KeptOnFailure(rc) == rc # UNQLITE_OK
AfterCommit(rc) == FALSE

\* ------------------------------------------------- Storage::startTransaction
startTransaction(rc) ==
    /\ alive
    /\ IF NotOpen
       THEN /\ UNCHANGED <<inTransaction, data, snapshot, engineTxn, atStart>>
            /\ last' = Call("startTransaction", NoKey, NoValue, Ret(FALSE),
                            <<>>, <<>>, <<>>, <<>>, inTransaction)
       ELSE IF AlreadyActive
       THEN /\ UNCHANGED <<inTransaction, data, snapshot, engineTxn, atStart>>
            /\ last' = Call("startTransaction", NoKey, NoValue, Ret(TRUE),
                            <<>>, <<>>, <<>>, <<>>, inTransaction)
       ELSE /\ engine_begin(rc)
            /\ inTransaction' = AfterBegin(rc)
            /\ atStart' = data
            /\ UNCHANGED data
            /\ last' = [ Call("startTransaction", NoKey, NoValue, Ret(inTransaction'),
                              IF inTransaction' THEN <<"unqlite_begin">>
                              ELSE <<"unqlite_begin", "unqlite_config">>,
                              IF inTransaction' THEN <<>> ELSE <<"unqlite_begin">>,
                              <<>>, <<>>, inTransaction) EXCEPT !.rc = rc ]
    /\ UNCHANGED <<alive, db>>

\* ------------------------------------------------ Storage::commitTransaction
commitTransaction(rc) ==
    /\ alive
    /\ IF NotOpen
       THEN /\ UNCHANGED <<inTransaction, data, snapshot, engineTxn, atStart>>
            /\ last' = Call("commitTransaction", NoKey, NoValue, Ret(FALSE),
                            <<>>, <<>>, <<>>, <<>>, inTransaction)
       ELSE IF NothingToCommit
       THEN /\ UNCHANGED <<inTransaction, data, snapshot, engineTxn, atStart>>
            /\ last' = Call("commitTransaction", NoKey, NoValue, Ret(TRUE),
                            <<>>, <<>>, <<>>, <<>>, inTransaction)
       ELSE /\ engine_commit(rc)
            /\ inTransaction' = AfterCommit(rc)
            /\ atStart' = HistAtStart(inTransaction', data)
            /\ UNCHANGED data
            /\ last' = [ Call("commitTransaction", NoKey, NoValue, Ret(rc = UNQLITE_OK),
                              IF rc = UNQLITE_OK THEN <<"unqlite_commit">>
                              ELSE <<"unqlite_commit", "unqlite_config">>,
                              IF rc = UNQLITE_OK THEN <<>> ELSE <<"unqlite_commit">>,
                              <<>>, <<>>, inTransaction) EXCEPT !.rc = rc ]
    /\ UNCHANGED <<alive, db>>

\* ------------------------------------------------- Storage::abortTransaction
\* the flag cleared, the rollback forgotten
abortTransaction_NoRollback ==
    /\ alive
    /\ inTransaction' = FALSE
    /\ atStart' = data
    /\ last' = Call("abortTransaction", NoKey, NoValue, Void,
                    <<>>, <<>>, <<>>, <<>>, inTransaction)
    /\ UNCHANGED <<alive, db, data, snapshot, engineTxn>>

abortTransaction ==
    /\ alive
    /\ IF NothingToAbort
       THEN /\ UNCHANGED <<inTransaction, data, snapshot, engineTxn, atStart>>
            /\ last' = Call("abortTransaction", NoKey, NoValue, Void,
                            <<>>, <<>>, <<>>, <<>>, inTransaction)
       ELSE /\ engine_rollback
            /\ inTransaction' = FALSE
            /\ atStart' = data'
            /\ last' = Call("abortTransaction", NoKey, NoValue, Void,
                            <<"unqlite_rollback">>, <<>>, <<>>, <<>>, inTransaction)
    /\ UNCHANGED <<alive, db>>

\* ------------------------ Storage::write(const void *, size_t, const void *, size_t)
\* the call on the raw buffers: valueSize bytes starting at value are stored
write_raw_OpensTransaction(op, key, value, bytes, rc) ==
    /\ alive
    /\ IF NotOpen
       THEN /\ UNCHANGED <<data, snapshot, inTransaction, engineTxn>>
            /\ last' = Call(op, key, value, Ret(FALSE), <<>>, <<>>, <<>>, <<>>,
                            inTransaction)
       ELSE /\ data' = engine_kv_store(rc, key, bytes)
            /\ snapshot' = IF inTransaction \/ engineTxn THEN snapshot ELSE data
            /\ inTransaction' = TRUE
            /\ engineTxn' = TRUE
            /\ last' = [ Call(op, key, value, Ret(rc = UNQLITE_OK),
                            (IF inTransaction THEN <<>> ELSE <<"unqlite_begin">>)
                              \o (IF rc = UNQLITE_OK THEN <<"unqlite_kv_store">>
                                  ELSE <<"unqlite_kv_store", "unqlite_config">>),
                            IF rc = UNQLITE_OK THEN <<>> ELSE <<"unqlite_kv_store">>,
                            <<>>, <<>>, inTransaction) EXCEPT !.rc = rc ]
    /\ atStart' = HistAtStart(inTransaction, data')
    /\ UNCHANGED <<alive, db>>

write_raw(op, key, value, bytes, rc) ==
    /\ alive
    /\ IF NotOpen
       THEN /\ UNCHANGED <<data, snapshot>>
            /\ last' = Call(op, key, value, Ret(FALSE), <<>>, <<>>, <<>>, <<>>,
                            inTransaction)
       ELSE /\ data' = engine_kv_store(rc, key, bytes)
            /\ snapshot' = engine_point(data')
            /\ last' = [ Call(op, key, value, Ret(rc = UNQLITE_OK),
                            IF rc = UNQLITE_OK THEN <<"unqlite_kv_store">>
                            ELSE <<"unqlite_kv_store", "unqlite_config">>,
                            IF rc = UNQLITE_OK THEN <<>> ELSE <<"unqlite_kv_store">>,
                            <<>>, <<>>, inTransaction) EXCEPT !.rc = rc ]
    /\ atStart' = HistAtStart(inTransaction, data')
    /\ UNCHANGED <<alive, db, inTransaction, engineTxn>>

write(key, value, rc) == write_raw("write", key, value, value, rc)

\* ------------------ Storage::write(const std::string &, const std::string &)
\* the n bytes found at sValue.data(): the string's bytes, then its
\* terminator, then whatever lies behind the buffer
StringData(sValue, n) ==
    IF n <= Len(sValue)
    THEN { SubSeq(sValue, 1, n) }
    ELSE { sValue \o <<0>> \o g : g \in [1..(n - Len(sValue) - 1) -> GarbageBytes] }

\* the value size the overload passes on
StringValueSize(sKey, sValue) == Len(sKey)

write_string(sKey, sValue, rc) ==
    \E bytes \in StringData(sValue, StringValueSize(sKey, sValue)) :
        write_raw("write_string", sKey, sValue, bytes, rc)

\* ------------------------------------------------------------ Storage::remove
remove_WithoutDelete(key, rc) ==
    /\ alive
    /\ IF NotOpen
       THEN /\ UNCHANGED <<data, snapshot>>
            /\ last' = Call("remove", key, NoValue, Void, <<>>, <<>>,
                            <<Error(NotOpenCode, "Not open")>>, <<>>, inTransaction)
       ELSE /\ UNCHANGED <<data, snapshot>>
            /\ last' = [ Call("remove", key, NoValue, Void, <<"unqlite_kv_delete">>,
                            <<>>, <<>>, <<>>, inTransaction) EXCEPT !.rc = rc ]
    /\ atStart' = HistAtStart(inTransaction, data')
    /\ UNCHANGED <<alive, db, inTransaction, engineTxn>>

remove_ReportsDeleteFailure(key, rc) ==
    /\ alive
    /\ IF NotOpen
       THEN /\ UNCHANGED <<data, snapshot>>
            /\ last' = Call("remove", key, NoValue, Void, <<>>, <<>>,
                            <<Error(NotOpenCode, "Not open")>>, <<>>, inTransaction)
       ELSE /\ data' = engine_kv_delete(rc, key)
            /\ snapshot' = engine_point(data')
            /\ last' = [ Call("remove", key, NoValue, Void, <<"unqlite_kv_delete">>,
                            <<>>,
                            IF rc = UNQLITE_OK THEN <<>>
                            ELSE <<Error(rc, "unqlite_kv_delete")>>,
                            <<>>, inTransaction) EXCEPT !.rc = rc ]
    /\ atStart' = HistAtStart(inTransaction, data')
    /\ UNCHANGED <<alive, db, inTransaction, engineTxn>>

remove(key, rc) ==
    /\ alive
    /\ IF NotOpen
       THEN /\ UNCHANGED <<data, snapshot>>
            /\ last' = Call("remove", key, NoValue, Void, <<>>, <<>>,
                            <<Error(NotOpenCode, "Not open")>>, <<>>, inTransaction)
       ELSE /\ data' = engine_kv_delete(rc, key)
            /\ snapshot' = engine_point(data')
            /\ last' = [ Call("remove", key, NoValue, Void, <<"unqlite_kv_delete">>,
                            <<>>, <<>>, <<>>, inTransaction) EXCEPT !.rc = rc ]
    /\ atStart' = HistAtStart(inTransaction, data')
    /\ UNCHANGED <<alive, db, inTransaction, engineTxn>>

\* ------------------------------------------------------------ fetchCursorData
\* one entry handed to the result handler: the buffers' contents, whether
\* the value pointer is non-null, and what the handler returned
Result(k, v, ptr, ret) == [ key |-> k, value |-> v, ptr |-> ptr, ret |-> ret ]

\* a buffer's capacity after the entry's length is known
Grow_ToLength(capacity, length) == length
Grow(capacity, length) == IF length > capacity THEN length ELSE capacity

\* the fetch of entry (k, v) with buffers of capacity keyCap and dataCap;
\* f names the engine call that fails ("none", "size", "copy"), ret is what
\* the result handler returns if it is invoked
fetchCursorData_KeyAsValue(k, v, keyCap, dataCap, f, ret) ==
    IF f = "size"
    THEN [ keyCap |-> keyCap, dataCap |-> dataCap,
           engine |-> <<"unqlite_kv_cursor_key">>, results |-> <<>> ]
    ELSE LET kc == Grow(keyCap, Len(k))
             dc == Grow(dataCap, Len(v))
         IN IF f = "copy"
            THEN [ keyCap |-> kc, dataCap |-> dc,
                   engine |-> <<"unqlite_kv_cursor_key", "unqlite_kv_cursor_data",
                                "unqlite_kv_cursor_key">>,
                   results |-> <<>> ]
            ELSE [ keyCap |-> kc, dataCap |-> dc,
                   engine |-> <<"unqlite_kv_cursor_key", "unqlite_kv_cursor_data",
                                "unqlite_kv_cursor_key", "unqlite_kv_cursor_data">>,
                   results |-> << Result(k, k, dc > 0, ret) >> ]

fetchCursorData(k, v, keyCap, dataCap, f, ret) ==
    IF f = "size"
    THEN [ keyCap |-> keyCap, dataCap |-> dataCap,
           engine |-> <<"unqlite_kv_cursor_key">>, results |-> <<>> ]
    ELSE LET kc == Grow(keyCap, Len(k))
             dc == Grow(dataCap, Len(v))
         IN IF f = "copy"
            THEN [ keyCap |-> kc, dataCap |-> dc,
                   engine |-> <<"unqlite_kv_cursor_key", "unqlite_kv_cursor_data",
                                "unqlite_kv_cursor_key">>,
                   results |-> <<>> ]
            ELSE [ keyCap |-> kc, dataCap |-> dc,
                   engine |-> <<"unqlite_kv_cursor_key", "unqlite_kv_cursor_data",
                                "unqlite_kv_cursor_key", "unqlite_kv_cursor_data">>,
                   results |-> << Result(k, v, dc > 0, ret) >> ]

\* -------------------------------------------------------------- Storage::scan
\* the stored keys in the engine's order
Entries == SelectSeq(KeyOrder, LAMBDA k : data[k] # NoValue)

\* what a scan has done so far
Trace(engine, results, keyCaps, dataCaps) ==
    [ engine |-> engine, results |-> results,
      keyCaps |-> keyCaps, dataCaps |-> dataCaps ]

\* one fetch appended to a trace; the handler returns false on its
\* stopAt-th invocation, the faultAt-th fetch fails as fault says
Fetched(t, k, i, fault, faultAt, stopAt) ==
    LET kc == IF t.keyCaps = <<>> THEN 0 ELSE t.keyCaps[Len(t.keyCaps)]
        dc == IF t.dataCaps = <<>> THEN 0 ELSE t.dataCaps[Len(t.dataCaps)]
        f == fetchCursorData(k, data[k], kc, dc,
                             IF i = faultAt THEN fault ELSE "none",
                             Len(t.results) + 1 # stopAt)
    IN Trace(t.engine \o f.engine, t.results \o f.results,
             Append(t.keyCaps, f.keyCap), Append(t.dataCaps, f.dataCap))

\* the full-scan loop from the i-th entry on
RECURSIVE FullScan(_, _, _, _, _)
FullScan(t, i, fault, faultAt, stopAt) ==
    IF i > Len(Entries)
    THEN [ t EXCEPT !.engine = @ \o <<"unqlite_kv_cursor_valid_entry">> ]
    ELSE LET f == Fetched([ t EXCEPT !.engine = @ \o <<"unqlite_kv_cursor_valid_entry">> ],
                          Entries[i], i, fault, faultAt, stopAt)
         IN FullScan([ f EXCEPT !.engine = @ \o <<"unqlite_kv_cursor_next_entry">> ],
                     i + 1, fault, faultAt, stopAt)

\* Storage::Private::reportDbError(functionName, errorCode, errorHandler):
\* the error handed over, errLog saying whether the engine's log has text
reportDbError_DropsCode(functionName, errorCode, errLog) ==
    IF db /\ errLog
    THEN Error(NotOpenCode, "errorMessage")
    ELSE Error(NotOpenCode, functionName)

reportDbError(functionName, errorCode, errLog) ==
    IF db /\ errLog
    THEN Error(errorCode, "errorMessage")
    ELSE Error(errorCode, functionName)

\* the end of a scan that opened a cursor: free(keyBuffer), free(dataBuffer),
\* unqlite_kv_cursor_release, on every path behind the cursor's init
ScanExit_LeakWithoutResult(t) ==
    IF t.results = <<>>
    THEN [ engine |-> t.engine, freed |-> <<>> ]
    ELSE [ engine |-> t.engine \o <<"unqlite_kv_cursor_release">>,
           freed |-> <<"keyBuffer", "dataBuffer">> ]

ScanExit(t) ==
    [ engine |-> t.engine \o <<"unqlite_kv_cursor_release">>,
      freed |-> <<"keyBuffer", "dataBuffer">> ]

\* the observation of a scan on behalf of op
ScanCall_SeekFallsThrough(op, keyData, stopAt, fault, faultAt, errLog) ==
    LET c == Call(op, keyData, NoValue, Void, <<>>, <<>>, <<>>, <<>>, inTransaction)
        obs == [ c EXCEPT !.stopAt = stopAt, !.fault = fault, !.faultAt = faultAt ]
        start == Trace(<<"unqlite_kv_cursor_init">>, <<>>, <<>>, <<>>)
    IN IF NotOpen
       THEN [ obs EXCEPT !.errs = << Error(NotOpenCode, "Not open") >> ]
       ELSE IF fault = "cursor_init"
       THEN [ obs EXCEPT !.engine = <<"unqlite_kv_cursor_init", "unqlite_config">>,
                         !.rc = UNQLITE_IOERR,
                         !.errs = << reportDbError("unqlite_kv_cursor_init",
                                                   UNQLITE_IOERR, errLog) >> ]
       ELSE LET t == IF keyData = <<>>
                     THEN FullScan([ start EXCEPT !.engine =
                                       @ \o <<"unqlite_kv_cursor_first_entry">> ],
                                   1, fault, faultAt, stopAt)
                     ELSE IF data[keyData] # NoValue
                     THEN Fetched([ start EXCEPT !.engine =
                                      @ \o <<"unqlite_kv_cursor_seek">> ],
                                  keyData, 1, fault, faultAt, stopAt)
                     ELSE IF Entries # <<>>
                     THEN Fetched([ start EXCEPT !.engine =
                                      @ \o <<"unqlite_kv_cursor_seek">> ],
                                  Entries[1], 1, fault, faultAt, stopAt)
                     ELSE [ start EXCEPT !.engine = @ \o <<"unqlite_kv_cursor_seek">> ]
            IN [ obs EXCEPT !.engine = ScanExit(t).engine,
                            !.results = t.results,
                            !.keyCaps = t.keyCaps,
                            !.dataCaps = t.dataCaps,
                            !.reports = IF keyData # <<>> /\ data[keyData] = NoValue
                                        THEN <<"couldn't find value">> ELSE <<>>,
                            !.freed = ScanExit(t).freed ]

ScanCall(op, keyData, stopAt, fault, faultAt, errLog) ==
    LET c == Call(op, keyData, NoValue, Void, <<>>, <<>>, <<>>, <<>>, inTransaction)
        obs == [ c EXCEPT !.stopAt = stopAt, !.fault = fault, !.faultAt = faultAt ]
        start == Trace(<<"unqlite_kv_cursor_init">>, <<>>, <<>>, <<>>)
    IN IF NotOpen
       THEN [ obs EXCEPT !.errs = << Error(NotOpenCode, "Not open") >> ]
       ELSE IF fault = "cursor_init"
       THEN [ obs EXCEPT !.engine = <<"unqlite_kv_cursor_init", "unqlite_config">>,
                         !.rc = UNQLITE_IOERR,
                         !.errs = << reportDbError("unqlite_kv_cursor_init",
                                                   UNQLITE_IOERR, errLog) >> ]
       ELSE LET t == IF keyData = <<>>
                     THEN FullScan([ start EXCEPT !.engine =
                                       @ \o <<"unqlite_kv_cursor_first_entry">> ],
                                   1, fault, faultAt, stopAt)
                     ELSE IF data[keyData] # NoValue
                     THEN Fetched([ start EXCEPT !.engine =
                                      @ \o <<"unqlite_kv_cursor_seek">> ],
                                  keyData, 1, fault, faultAt, stopAt)
                     ELSE [ start EXCEPT !.engine = @ \o <<"unqlite_kv_cursor_seek">> ]
            IN [ obs EXCEPT !.engine = ScanExit(t).engine,
                            !.results = t.results,
                            !.keyCaps = t.keyCaps,
                            !.dataCaps = t.dataCaps,
                            !.reports = IF keyData # <<>> /\ data[keyData] = NoValue
                                        THEN <<"couldn't find value">> ELSE <<>>,
                            !.freed = ScanExit(t).freed ]

scan(keyData, stopAt, fault, faultAt, errLog) ==
    /\ alive
    /\ last' = ScanCall("scan", keyData, stopAt, fault, faultAt, errLog)
    /\ UNCHANGED <<alive, db, inTransaction, data, snapshot, engineTxn, atStart>>

\* ----------------- Storage::read(sKey, bool(void *ptr, int size), errorHandler)
\* the scan's result handler forwards the value pointer and size
read_raw(sKey, stopAt, fault, faultAt, errLog) ==
    /\ alive
    /\ LET s == ScanCall("read_raw", sKey, stopAt, fault, faultAt, errLog)
       IN last' = [ s EXCEPT !.results =
                      [ i \in 1..Len(@) |-> [ @[i] EXCEPT !.key = NoKey ] ] ]
    /\ UNCHANGED <<alive, db, inTransaction, data, snapshot, engineTxn, atStart>>

\* ------ Storage::read(sKey, bool(const std::string &value), errorHandler)
\* the wrapper builds a string of size bytes and invokes the caller's
\* handler only for a non-null pointer
read(sKey, stopAt, fault, faultAt, errLog) ==
    /\ alive
    /\ LET s == ScanCall("read", sKey, stopAt, fault, faultAt, errLog)
           handled == SelectSeq(s.results, LAMBDA r : r.ptr)
       IN last' = [ s EXCEPT !.results =
                      [ i \in 1..Len(handled) |-> [ handled[i] EXCEPT !.key = NoKey ] ] ]
    /\ UNCHANGED <<alive, db, inTransaction, data, snapshot, engineTxn, atStart>>

\* --------- the const queries Storage::isInTransaction, exists, diskUsage
\* each returns what it reads; diskUsage is the size of the store's file
Query(op, ret) ==
    /\ alive
    /\ last' = Call(op, NoKey, NoValue, ret, <<>>, <<>>, <<>>, <<>>, inTransaction)
    /\ UNCHANGED <<alive, db, inTransaction, data, snapshot, engineTxn, atStart>>

isInTransaction_const == Query("isInTransaction", Ret(isInTransaction))
exists_const == Query("exists", Ret(exists))
diskUsage == Query("diskUsage", "size")

\* ----------------------------------------------------------- Storage::~Storage
\* if (d->inTransaction) abortTransaction()
DtorAborts_Never == FALSE
DtorAborts == inTransaction

\* an open transaction is aborted, then ~Private closes the handle; kept says
\* whether the close keeps the writes of a transaction the engine still has open
StorageDtor(kept) ==
    /\ alive
    /\ LET rolled == DtorAborts /\ ~NothingToAbort
           stored == IF rolled THEN snapshot
                     ELSE IF engineTxn /\ ~kept THEN snapshot ELSE data
       IN /\ data' = stored
          /\ snapshot' = stored
          /\ atStart' = stored
          /\ last' = Call("~Storage", NoKey, NoValue, Void,
                          IF rolled THEN <<"unqlite_rollback", "unqlite_close">>
                                    ELSE <<"unqlite_close">>,
                          <<>>, <<>>, <<>>, inTransaction)
    /\ alive' = FALSE
    /\ db' = FALSE
    /\ inTransaction' = FALSE
    /\ engineTxn' = FALSE

\* ------------------------------------------------------------------ the calls
\* the engine faults a scan for keyData can meet, with the fetch they hit
ScanFaults(keyData) ==
    { <<"none", 0>>, <<"cursor_init", 0>> }
        \cup ({"size", "copy"}
                \X (1..(IF keyData = <<>> THEN Cardinality(Keys) ELSE 1)))

\* the invocation at which a result handler can ask to stop (0: never)
StopAts(keyData) == 0..(IF keyData = <<>> THEN Cardinality(Keys) ELSE 1)

Next ==
    \/ \E rc \in EngineRc : startTransaction(rc)
    \/ \E rc \in EngineRc : commitTransaction(rc)
    \/ abortTransaction
    \/ \E k \in Keys, v \in Values, rc \in EngineRc : write(k, v, rc)
    \/ \E k \in Keys, v \in Values, rc \in EngineRc : write_string(k, v, rc)
    \/ \E k \in Keys, rc \in EngineRc : remove(k, rc)
    \/ \E k \in Keys \cup {<<>>} :
          \E stopAt \in StopAts(k), f \in ScanFaults(k), errLog \in BOOLEAN :
            /\ (f[1] # "none") => stopAt = 0
            /\ (f[1] # "cursor_init") => ~errLog
            /\ scan(k, stopAt, f[1], f[2], errLog)
    \/ \E k \in Keys \cup {<<>>} :
          \E f \in ScanFaults(k) : f[1] # "size" /\ read_raw(k, 0, f[1], f[2], FALSE)
    \/ \E k \in Keys \cup {<<>>} :
          \E f \in ScanFaults(k) : f[1] # "size" /\ read(k, 0, f[1], f[2], FALSE)
    \/ isInTransaction_const
    \/ exists_const
    \/ diskUsage
    \/ \E kept \in BOOLEAN : StorageDtor(kept)
    \/ \E rc \in EngineRc : Storage(rc)

Spec == Init /\ [][Next]_vars

\* ================================================================== claims
\* how often a call issued the engine function f
Count(call, f) == Cardinality({ i \in DOMAIN call.engine : call.engine[i] = f })
Issued(call, f) == Count(call, f) > 0
NotOpenError == Error(NotOpenCode, "Not open")

\* C1: on a Store whose open failed every operation fails without an engine
\* call: startTransaction, commitTransaction and write return false,
\* abortTransaction does nothing, read/remove/scan invoke the error handler
\* exactly once with code -1 ("Not open") and never the result handler, and
\* the transaction state stays Idle.
C1_NotOpenFailsFast ==
    (alive /\ ~exists) =>
        /\ ~isInTransaction
        /\ last.op # "Storage" =>
              /\ last.engine = <<>>
              /\ last.results = <<>>
              /\ ~last.wasIn
        /\ last.op \in {"startTransaction", "commitTransaction", "write", "write_string"}
              => (last.ret = Ret(FALSE) /\ last.errs = <<>>)
        /\ last.op = "abortTransaction" => last.errs = <<>>
        /\ last.op \in {"read", "read_raw", "remove", "scan"}
              => last.errs = << NotOpenError >>

\* a scan was called on a Store that never opened, after another failed call
C1_Witness ==
    /\ alive /\ ~exists
    /\ last.op = "scan" /\ last.errs = << NotOpenError >>
    /\ data = EmptyStore

\* C2 (as claimed): the engine's begin is never issued while an engine
\* transaction begun earlier by this Store has been neither successfully
\* committed nor rolled back.
C2_BeginOnlyWithoutOpenEngineTxn ==
    [][ Issued(last', "unqlite_begin") => ~engineTxn ]_vars

\* C2 (amended): the engine's begin is never issued while the Store is Active,
\* that is while a transaction it began has had neither a commit attempt
\* (successful or failed) nor a rollback.
C2_BeginOnlyWhenIdle ==
    [][ Issued(last', "unqlite_begin") => (~inTransaction /\ Count(last', "unqlite_begin") = 1) ]_vars

\* a begin was issued, and succeeded, while the engine still had the
\* transaction of a failed commit open
C2_Witness ==
    /\ last.op = "startTransaction" /\ Issued(last, "unqlite_begin")
    /\ ~last.wasIn /\ last.hadEngineTxn
    /\ inTransaction

\* C3 (as claimed): startTransaction called twice in a row returns true both
\* times and leaves the store Active; called in state Active it is a no-op
\* that returns true without a second engine begin.
C3_StartTwiceBothTrue ==
    /\ (last.op = "startTransaction" /\ last.again)
          => (last.prevRet = Ret(TRUE) /\ last.ret = Ret(TRUE) /\ inTransaction)
    /\ (last.op = "startTransaction" /\ last.wasIn)
          => (last.ret = Ret(TRUE) /\ inTransaction /\ last.engine = <<>>)

\* C3 (amended): when the first of two startTransaction calls in a row
\* returned true, the second returns true too and the store is Active; called
\* in state Active it is a no-op that returns true without an engine begin.
C3_RestartIsNoOp ==
    /\ []((last.op = "startTransaction" /\ last.again /\ last.prevRet = Ret(TRUE))
            => (last.ret = Ret(TRUE) /\ inTransaction /\ last.engine = <<>>))
    /\ []((last.op = "startTransaction" /\ last.wasIn)
            => (last.ret = Ret(TRUE) /\ inTransaction /\ last.engine = <<>>))
    /\ [][ (last'.op = "startTransaction" /\ inTransaction)
              => UNCHANGED <<inTransaction, data, snapshot, engineTxn>> ]_vars

\* the second of two startTransaction calls in a row, the first having
\* returned true
C3_Witness ==
    /\ last.op = "startTransaction" /\ last.again /\ last.prevRet = Ret(TRUE)
    /\ last.wasIn /\ inTransaction

\* C4 (as claimed): commitTransaction and abortTransaction called in state
\* Idle leave everything unchanged (state Idle, no engine commit or rollback,
\* data unchanged) and commitTransaction returns true.
C4_IdleCommitAbortNoOp ==
    [][ (last'.op \in {"commitTransaction", "abortTransaction"} /\ ~inTransaction)
          => /\ UNCHANGED <<inTransaction, data, snapshot, engineTxn>>
             /\ last'.engine = <<>>
             /\ last'.op = "commitTransaction" => last'.ret = Ret(TRUE) ]_vars

\* C4 (amended): as claimed on an open Store; on a Store that is not open
\* commitTransaction returns false, with the same frame.
C4_IdleCommitAbortNoOpWhenOpen ==
    [][ (last'.op \in {"commitTransaction", "abortTransaction"} /\ ~inTransaction)
          => /\ UNCHANGED <<inTransaction, data, snapshot, engineTxn>>
             /\ last'.engine = <<>>
             /\ last'.op = "commitTransaction" => last'.ret = Ret(exists) ]_vars

\* commitTransaction was called in state Idle on an open Store holding data
C4_Witness ==
    /\ last.op = "commitTransaction" /\ ~last.wasIn /\ exists
    /\ last.ret = Ret(TRUE)
    /\ data # EmptyStore

\* C5: commitTransaction called in state Active leaves the state Idle whether
\* the engine commit succeeded or failed, issues the engine commit exactly
\* once, and returns true exactly when the engine reported success.
C5_CommitAlwaysClears ==
    (last.op = "commitTransaction" /\ last.wasIn) =>
        /\ ~isInTransaction
        /\ Count(last, "unqlite_commit") = 1
        /\ (last.ret = Ret(TRUE)) <=> (last.rc = UNQLITE_OK)
        /\ last.ret \in {Ret(TRUE), Ret(FALSE)}

\* a commit in state Active that the engine failed
C5_Witness ==
    /\ last.op = "commitTransaction" /\ last.wasIn
    /\ last.rc # UNQLITE_OK /\ ~isInTransaction

\* C6: startTransaction called in state Idle on an open Store: when the
\* engine's begin fails the state remains Idle and the call returns false,
\* when it succeeds the state becomes Active and the call returns true; the
\* return value equals isInTransaction() right after the call.
C6_StartFollowsBegin ==
    (last.op = "startTransaction" /\ ~last.wasIn /\ exists) =>
        /\ Count(last, "unqlite_begin") = 1
        /\ (last.rc # UNQLITE_OK) => (~isInTransaction /\ last.ret = Ret(FALSE))
        /\ (last.rc = UNQLITE_OK) => (isInTransaction /\ last.ret = Ret(TRUE))
        /\ last.ret = Ret(isInTransaction)

\* a startTransaction in state Idle whose begin the engine failed
C6_Witness ==
    /\ last.op = "startTransaction" /\ ~last.wasIn /\ exists
    /\ last.rc # UNQLITE_OK /\ ~isInTransaction

\* C7: a value written with write(key, value) is read back unchanged in
\* content and length, whatever the lengths of key and value.
C7_RoundTrip ==
    [][ ( /\ last.op = "write_string" /\ last.ret = Ret(TRUE)
          /\ last'.op = "read" /\ last'.key = last.key
          /\ last'.fault = "none" )
          => ( /\ Len(last'.results) = 1
               /\ last'.results[1].value = last.value ) ]_vars

\* C8: destroying a Store in state Active aborts and never commits: the
\* engine rollback is issued, then the close, no commit; the stored pairs
\* are those of the moment the Store became Active, and the reopened Store
\* finds exactly them.
C8_DestroyAborts ==
    /\ []((last.op = "~Storage" /\ last.wasIn)
            => /\ last.engine = <<"unqlite_rollback", "unqlite_close">>
               /\ \A k \in last.fresh : data[k] = NoValue)
    /\ [][ (last'.op = "~Storage" /\ inTransaction) => data' = atStart ]_vars
    /\ [][ (last.op = "~Storage" /\ last'.op = "Storage") => data' = data ]_vars

\* a Store destroyed in state Active after a write of a new key
C8_Witness ==
    /\ last.op = "~Storage" /\ last.wasIn
    /\ last.fresh # {}
    /\ \A k \in last.fresh : data[k] = NoValue

\* C9: after a successful startTransaction, writes of new keys followed by
\* abortTransaction leave none of those keys observable: the state is Idle
\* and the full scan that follows hands none of them to the result handler.
C9_AbortUndoesNewKeys ==
    /\ (last.op = "abortTransaction" /\ last.wasIn)
          => /\ ~isInTransaction
             /\ Count(last, "unqlite_rollback") = 1
             /\ \A k \in last.fresh : data[k] = NoValue
    /\ (last.op = "scan" /\ last.key = <<>>)
          => \A i \in DOMAIN last.results : last.results[i].key \notin last.undone

\* a full scan right after the abort of a transaction that wrote both keys,
\* both new: the scan hands over nothing
C9_Witness ==
    /\ last.op = "scan" /\ last.key = <<>> /\ last.fault = "none"
    /\ last.undone = Keys
    /\ last.results = <<>>

\* C10: in a full scan a result handler that returns false stops the loop:
\* no entry is handed to it after the one it refused, and the cursor and both
\* buffers are released.
C10_StopHonoured ==
    (last.op = "scan" /\ last.key = <<>> /\ exists /\ last.fault = "none"
        /\ last.stopAt > 0 /\ Len(last.results) >= last.stopAt)
      => /\ Len(last.results) = last.stopAt
         /\ Count(last, "unqlite_kv_cursor_release") = 1
         /\ last.freed = <<"keyBuffer", "dataBuffer">>

\* the calls that run Storage::scan
ScanOps == {"scan", "read", "read_raw"}

C12_ReadAtMostOne ==
    (last.op \in {"read", "read_raw"} /\ exists) => Len(last.results) <= 1

C15_CursorReleasedOnce ==
    last.op \in ScanOps =>
        IF Issued(last, "unqlite_kv_cursor_init") /\ last.fault # "cursor_init"
        THEN /\ Count(last, "unqlite_kv_cursor_release") = 1
             /\ last.engine[Len(last.engine)] = "unqlite_kv_cursor_release"
             /\ last.freed = <<"keyBuffer", "dataBuffer">>
        ELSE /\ Count(last, "unqlite_kv_cursor_release") = 0
             /\ last.freed = <<>>

\* a full scan over both keys whose second fetch failed in the copy
C15_Witness ==
    /\ last.op = "scan" /\ last.key = <<>> /\ exists
    /\ last.fault = "copy" /\ last.faultAt = 2
    /\ Len(last.results) = 1
    /\ Count(last, "unqlite_kv_cursor_release") = 1
    /\ last.freed = <<"keyBuffer", "dataBuffer">>

\* the key the i-th fetch of the last scan was positioned at
FetchedKey(i) == IF last.key = <<>> THEN Entries[i] ELSE last.key
\* the fetch behind the j-th invocation of the result handler
FetchOf(j) == IF last.faultAt = 0 \/ j < last.faultAt THEN j ELSE j + 1
\* a buffer's capacity when the i-th fetch began
CapBefore(caps, i) == IF i = 1 THEN 0 ELSE caps[i - 1]

\* C16: within one scan call neither buffer's capacity ever decreases, a
\* buffer is reallocated only for an entry strictly longer than its capacity
\* (and then to that length), and at every invocation of the result handler
\* each buffer's capacity is at least the length of the entry it holds.
C16_BuffersOnlyGrow ==
    last.op \in ScanOps =>
        /\ Len(last.keyCaps) = Len(last.dataCaps)
        /\ \A i \in DOMAIN last.keyCaps :
              /\ last.keyCaps[i] >= CapBefore(last.keyCaps, i)
              /\ last.dataCaps[i] >= CapBefore(last.dataCaps, i)
              /\ last.keyCaps[i] # CapBefore(last.keyCaps, i)
                    => /\ Len(FetchedKey(i)) > CapBefore(last.keyCaps, i)
                       /\ last.keyCaps[i] = Len(FetchedKey(i))
              /\ last.dataCaps[i] # CapBefore(last.dataCaps, i)
                    => /\ Len(data[FetchedKey(i)]) > CapBefore(last.dataCaps, i)
                       /\ last.dataCaps[i] = Len(data[FetchedKey(i)])
        /\ last.op = "scan" =>
              \A j \in DOMAIN last.results :
                  /\ last.keyCaps[FetchOf(j)] >= Len(last.results[j].key)
                  /\ last.dataCaps[FetchOf(j)] >= Len(last.results[j].value)

\* a full scan whose second entry has the longer key and the shorter value:
\* the key buffer grew for it, the value buffer kept its capacity
C16_Witness ==
    /\ last.op = "scan" /\ last.key = <<>> /\ last.fault = "none"
    /\ Len(last.results) = 2
    /\ last.keyCaps[2] > last.keyCaps[1]
    /\ last.dataCaps[2] = last.dataCaps[1]
    /\ Len(last.results[2].value) < last.dataCaps[2]

\* C17: when the engine fails to initialise the cursor of a scan on an open
\* store, the error handler is invoked exactly once with the engine's return
\* code, the result handler never, no seek or iteration is performed, and the
\* transaction state is unchanged.
C17_CursorInitFailure ==
    (last.op \in ScanOps /\ exists /\ last.fault = "cursor_init")
      => /\ Len(last.errs) = 1
         /\ last.errs[1].code = last.rc
         /\ last.rc # UNQLITE_OK
         /\ last.results = <<>>
         /\ \A f \in {"unqlite_kv_cursor_seek", "unqlite_kv_cursor_first_entry",
                      "unqlite_kv_cursor_valid_entry", "unqlite_kv_cursor_next_entry",
                      "unqlite_kv_cursor_key", "unqlite_kv_cursor_data"} :
               ~Issued(last, f)
         /\ isInTransaction = last.wasIn

\* a scan inside a transaction, over a store that holds a key, whose cursor
\* the engine does not initialise
C17_Witness ==
    /\ last.op = "scan" /\ exists /\ last.fault = "cursor_init"
    /\ last.wasIn /\ isInTransaction
    /\ Entries # <<>>
    /\ Len(last.errs) = 1 /\ last.errs[1].code = UNQLITE_IOERR

\* C18: remove invokes the error handler if and only if the store is not
\* open; on an open store it issues exactly one engine delete for the key in
\* either transaction state and never invokes the error handler, whether the
\* delete fails or the key is absent. write on an open store returns true
\* exactly when the engine store call succeeded and invokes no error handler.
C18_RemoveAndWriteReports ==
    /\ last.op = "remove"
          => /\ (last.errs # <<>>) <=> ~exists
             /\ exists => /\ last.engine = <<"unqlite_kv_delete">>
                          /\ last.rc = UNQLITE_OK => data[last.key] = NoValue
             /\ ~exists => last.errs = <<NotOpenError>>
    /\ (last.op \in {"write", "write_string"} /\ exists)
          => /\ (last.ret = Ret(TRUE)) <=> (last.rc = UNQLITE_OK)
             /\ Count(last, "unqlite_kv_store") = 1
             /\ last.errs = <<>>

\* a remove inside a transaction that the engine refused, the key still stored
C18_Witness ==
    /\ last.op = "remove" /\ exists /\ last.wasIn
    /\ last.rc # UNQLITE_OK
    /\ data[last.key] # NoValue
    /\ last.errs = <<>>

\* the calls other than startTransaction, commitTransaction, abortTransaction
FrameOps == ScanOps \cup {"write", "write_string", "remove",
                          "isInTransaction", "exists", "diskUsage"}

\* C19: write, read, remove, scan, isInTransaction, exists and diskUsage
\* leave the transaction state as it was on every path, and none of them
\* issues an engine begin, commit or rollback.
C19_TransactionStateFrame ==
    [][ last'.op \in FrameOps
          => /\ inTransaction' = inTransaction
             /\ last'.wasIn = inTransaction
             /\ ~Issued(last', "unqlite_begin")
             /\ ~Issued(last', "unqlite_commit")
             /\ ~Issued(last', "unqlite_rollback") ]_vars

\* a write inside a transaction that the engine refused: still Active
C19_Witness ==
    /\ last.op = "write" /\ exists /\ last.rc # UNQLITE_OK
    /\ last.wasIn /\ isInTransaction

\* C20: in every reachable state an Active transaction state implies an open
\* engine handle, and between construction and destruction exists() keeps
\* its value, whatever is called and whatever the engine reports.
C20_ActiveImpliesOpen ==
    /\ [](isInTransaction => exists)
    /\ [][ (alive /\ alive') => (exists' = exists) ]_vars

\* an Active store after a commit that failed and a new start
C20_Witness ==
    /\ alive /\ exists /\ isInTransaction
    /\ last.op = "startTransaction" /\ last.hadEngineTxn
    /\ last.ret = Ret(TRUE)
====
